---- MODULE Spec2Model ----
(***************************************************************************)
(* Model of packages/editor/src/editable/Editor.tsx: the element registry  *)
(* (zustand store `elements`), the selection, the save pipeline and the    *)
(* mode-qualified settings of class Editor.                                *)
(*                                                                         *)
(* JavaScript objects have identity and are mutated in place, so the model *)
(* keeps a heap: `heap` maps an object reference to the object's fields,   *)
(* and the registry `elements` maps a key to an object reference.          *)
(***************************************************************************)
EXTENDS Integers, Sequences, FiniteSets, TLC

\* Bounds of the model: the number of tree and selection operations performed in
\* one run, and the length of the longest array of diffs given to save.
MaxOps == 4
MaxDiffs == 3

\* The ids in play: "root" is the id of the entry the store is created with, the
\* others are ids as useId makes them.
Ids == {"root", ":r0:", ":r1:"}

\* The EditableElement objects that exist: the root created by the store, and
\* one object per id made by createElement (useMemo keeps one object per useId).
ElemRefs == {"E_r0", "E_r1", "E_root"}

\* JavaScript's null and undefined (an absent property).
Null == "<null>"
Undef == "<undefined>"

\* References for the plain objects `{}` appendElement makes for a missing parent.
StubRefs == {"S1", "S2", "S3"}

Refs == ElemRefs \cup StubRefs

\* The id given to each element object at construction.
idOf(ref) ==
  CASE ref = "E_root" -> "root"
    [] ref = "E_r0" -> ":r0:"
    [] ref = "E_r1" -> ":r1:"

\* element.key, the sub-identifier select() stores in selectedKey.
keyOf(id) == "key:" \o id

\* The elements that components acquire through useElement, and the id their
\* component reads from EditableElementContext: the first is rendered under the
\* root, the second inside the first.
Slots == {"E_r0", "E_r1"}
contextId(e) == IF e = "E_r0" THEN "root" ELSE ":r0:"

\* A plain object without own properties (`{}`), and an unallocated stub slot.
EmptyObject ==
  [kind |-> "object", id |-> Undef, parentId |-> Undef, childIds |-> <<>>,
   index |-> Undef, deleted |-> FALSE]

\* new EditableElement(id, source, componentType, null, props)
newEditableElement(id) ==
  [kind |-> "element", id |-> id, parentId |-> Null, childIds |-> <<>>,
   index |-> Undef, deleted |-> FALSE]

VARIABLES
  heap,         \* object reference -> fields of the object
  elements,     \* store.elements: key -> object reference
  selectedId,   \* store.selectedId
  selectedKey,  \* store.selectedKey
  last,         \* the last operation performed and what it was given
  nops,         \* the number of operations performed so far
  effects,      \* element object -> where the useElement effect of its component stands
  reader,       \* what a reader that called store.getState().elements holds
  undoStack,    \* historyManager: the diffs recorded and not undone
  redoStack,    \* historyManager: the diffs undone
  calls,        \* save call -> where the async call stands (ops: nops at the call)
  clientLog,    \* save call -> what the client has seen of it: start, ok, err
  panels,       \* panelStore.panels: panel name -> data of the panel's store
  settingsPanel,\* store.settingsPanel
  slast,        \* the last settings operation and the data it found
  panelOf,      \* panelStore.panels: panel name -> the store object registered
  firstPanel,   \* panel name -> what the first getPanel of the name returned
  plast         \* the last getPanel call: its argument, its result, panelOf before

historyVars == <<undoStack, redoStack>>
observerVars == <<reader, undoStack, redoStack>>
treeVars == <<heap, elements, selectedId, selectedKey, last, nops, effects,
              reader, undoStack, redoStack>>
saveVars == <<calls, clientLog>>
panelVars == <<panelOf, firstPanel, plast>>
settingsVars == <<panels, settingsPanel, slast, panelOf, firstPanel, plast>>
vars == <<heap, elements, selectedId, selectedKey, last, nops, effects,
          reader, undoStack, redoStack, calls, clientLog,
          panels, settingsPanel, slast, panelOf, firstPanel, plast>>

Range(f) == {f[k] : k \in DOMAIN f}

Count(s, x) == Cardinality({i \in DOMAIN s : s[i] = x})

Without(s, x) == SelectSeq(s, LAMBDA c : c # x)

NoOp == [op |-> "init", el |-> Null, arg |-> Null, existed |-> FALSE,
         pre |-> <<>>, rt |-> FALSE, sel |-> Null, reg |-> Null, stub |-> FALSE]

\* No reader holds the elements mapping.
NoReader == [held |-> FALSE]

\* Object.assign(target, source): copies the own properties of source.  A plain
\* parent object made by appendElement owns childIds only.
ObjectAssign(target, source) ==
  IF source.kind = "element"
  THEN [target EXCEPT !.id = source.id, !.parentId = source.parentId,
                      !.childIds = source.childIds, !.index = source.index,
                      !.deleted = source.deleted]
  ELSE [target EXCEPT !.childIds = source.childIds]

\* Objects no longer referenced by the registry are garbage: their slot is freed.
Collect(h, els) ==
  [r \in Refs |-> IF r \in StubRefs /\ r \notin Range(els) THEN EmptyObject ELSE h[r]]

\* The save calls made in one run (two, so that calls can overlap), and the arrays
\* of diffs they are given.
SaveCalls == {"s1", "s2"}
DiffArrays == {[i \in 1..n |-> "d" \o ToString(i)] : n \in 0..MaxDiffs}

\* The settings in play: the values of world.mode, the setting names, the values.
Modes == {"editor", "play"}
SettingKeys == {"x", "y"}
Values == {"v1", "v2"}
EmptyData == [p \in {} |-> Undef]

NoSettingsOp == [op |-> "init", key |-> "", val |-> "", values |-> <<>>,
                 before |-> EmptyData, threw |-> FALSE]

\* The panel names in play.  The panels object is an object literal, so besides
\* its own keys it has the properties every object inherits: "constructor" is
\* one of them, and panels["constructor"] is a function (truthy, without .panel).
PanelNames == {"default", "scene", "inspector", "constructor"}
Inherited == {"constructor"}

\* The store objects: leva's global store, the ones createLevaStore makes, and
\* one made elsewhere and never registered.
Created == {"P1", "P2", "P3"}
Handles == {"levaStore", "H_ext"} \cup Created

NoPanelOp == [op |-> "init", arg |-> "", ret |-> Undef,
              before |-> [n \in {"default"} |-> "levaStore"]]

\* createEditorStore, the field initialisers and the Editor constructor.
Init ==
  /\ heap = [r \in Refs |->
               IF r = "E_root" THEN [newEditableElement("root") EXCEPT !.index = ""]
               ELSE IF r \in ElemRefs THEN newEditableElement(idOf(r))
               ELSE EmptyObject]
  /\ elements = [k \in {"root"} |-> "E_root"]
  /\ selectedId = Null
  /\ selectedKey = Null
  /\ last = NoOp
  /\ nops = 0
  /\ effects = [e \in Slots |-> "unmounted"]
  /\ reader = NoReader
  /\ undoStack = <<>>
  /\ redoStack = <<>>
  /\ calls = [c \in SaveCalls |-> [pc |-> "idle", diffs |-> <<>>, i |-> 0, ops |-> 0]]
  /\ clientLog = [c \in SaveCalls |-> <<>>]
  /\ panels = [n \in {"default"} |-> EmptyData]
  /\ settingsPanel = "scene"
  /\ slast = NoSettingsOp
  /\ panelOf = [n \in {"default"} |-> "levaStore"]
  /\ firstPanel = [n \in {} |-> Undef]
  /\ plast = NoPanelOp

(***************************************************************************)
(* ELEMENT TREE                                                            *)
(***************************************************************************)

\* The state appendElement leaves: [heap, elements].
appendElementState(h, els, element, parentId) ==
  IF parentId # Null
  THEN LET h1 == [h EXCEPT ![element].parentId = parentId]
           existed == parentId \in DOMAIN els
           parent == IF existed THEN els[parentId]
                     ELSE CHOOSE s \in StubRefs : s \notin Range(els)
           parentObj == IF existed THEN h1[parent] ELSE EmptyObject
           h2 == [h1 EXCEPT ![parent] =
                    [parentObj EXCEPT !.childIds =
                       (IF existed THEN parentObj.childIds ELSE <<>>) \o <<h1[element].id>>]]
           eid == h2[element].id
           h3 == IF eid \in DOMAIN els
                 THEN [h2 EXCEPT ![element] = ObjectAssign(h2[element], h2[els[eid]])]
                 ELSE h2
           h4 == [h3 EXCEPT ![element].index = ToString(Len(h3[parent].childIds) - 1)]
           nid == h4[element].id
           els2 == [k \in DOMAIN els \cup {nid, parentId} |->
                      IF k = parentId THEN parent
                      ELSE IF k = nid THEN element
                      ELSE els[k]]
       IN [heap |-> Collect(h4, els2), elements |-> els2]
  ELSE LET eid == h[element].id
           h1 == IF eid \in DOMAIN els
                 THEN [h EXCEPT ![element] = ObjectAssign(h[element], h[els[eid]])]
                 ELSE h
           nid == h1[element].id
           els2 == [k \in DOMAIN els \cup {nid} |-> IF k = nid THEN element ELSE els[k]]
       IN [heap |-> Collect(h1, els2), elements |-> els2]

\* removeElement without its `delete e[element.id]`.
removeElementState_keepsEntry(h, els, element, parentId) ==
  IF parentId # Null
  THEN LET h1 == [h EXCEPT ![element].parentId = Null]
           h2 == IF parentId \in DOMAIN els
                 THEN [h1 EXCEPT ![els[parentId]].childIds =
                         Without(h1[els[parentId]].childIds, h1[element].id)]
                 ELSE h1
       IN [heap |-> h2, elements |-> els]
  ELSE [heap |-> h, elements |-> els]

\* removeElement giving up when the parent has no entry.
removeElementState_needsParent(h, els, element, parentId) ==
  IF parentId # Null /\ parentId \notin DOMAIN els
  THEN [heap |-> [h EXCEPT ![element].parentId = Null], elements |-> els]
  ELSE LET eid == h[element].id
           h1 == IF parentId # Null
                 THEN [h EXCEPT ![element].parentId = Null,
                                ![els[parentId]].childIds =
                                   Without(h[els[parentId]].childIds, eid)]
                 ELSE h
           els2 == [k \in DOMAIN els \ {eid} |-> els[k]]
       IN [heap |-> Collect(h1, els2), elements |-> els2]

\* The state removeElement leaves: [heap, elements].
removeElementState(h, els, element, parentId) ==
  IF parentId # Null
  THEN LET h1 == [h EXCEPT ![element].parentId = Null]
           eid == h1[element].id
           h2 == IF parentId \in DOMAIN els
                 THEN [h1 EXCEPT ![els[parentId]].childIds =
                         Without(h1[els[parentId]].childIds, eid)]
                 ELSE h1
           els2 == [k \in DOMAIN els \ {eid} |-> els[k]]
       IN [heap |-> Collect(h2, els2), elements |-> els2]
  ELSE LET eid == h[element].id
           els2 == [k \in DOMAIN els \ {eid} |-> els[k]]
       IN [heap |-> Collect(h, els2), elements |-> els2]

\* childIds of the entry under key p, <<>> when there is none.
childIdsOf(h, els, p) == IF p \in DOMAIN els THEN h[els[p]].childIds ELSE <<>>

\* The elements mapping with what each entry holds.
registryOf(h, els) == [k \in DOMAIN els |-> [ref |-> els[k], fields |-> h[els[k]]]]

\* setState installed a new elements mapping: the mapping a reader holds is no
\* longer the one of the store.
mappingReplaced(rd) == IF rd.held THEN [rd EXCEPT !.current = FALSE] ELSE rd

\* `delete el.elements[id]` on the mapping of the store: a reader that holds
\* this very mapping finds the key gone.
keyDeleted(rd, id) ==
  IF rd.held /\ rd.current
  THEN [rd EXCEPT !.map = [k \in DOMAIN rd.map \ {id} |-> rd.map[k]]]
  ELSE rd

\* One more operation is performed (the bound of the model is a bound on these).
Step == nops < MaxOps /\ nops' = nops + 1

appendElement(element, parentId) ==
  /\ Step
  /\ LET r == appendElementState(heap, elements, element, parentId)
     IN /\ heap' = r.heap
        /\ elements' = r.elements
  /\ last' = [NoOp EXCEPT !.op = "appendElement", !.el = element, !.arg = parentId,
                          !.existed = (parentId \in DOMAIN elements),
                          !.pre = childIdsOf(heap, elements, parentId)]
  /\ reader' = mappingReplaced(reader)
  /\ UNCHANGED <<selectedId, selectedKey, effects, historyVars, saveVars, settingsVars>>

\* removeElement clearing the selection when the element removed is selected.
removeElement_clearsSelected(element, parentId) ==
  /\ Step
  /\ LET r == removeElementState(heap, elements, element, parentId)
     IN /\ heap' = r.heap
        /\ elements' = r.elements
  /\ last' = [NoOp EXCEPT !.op = "removeElement", !.el = element, !.arg = parentId,
                          !.rt = (last.op = "appendElement" /\ last.el = element
                                  /\ last.arg = parentId),
                          !.pre = IF last.op = "appendElement" /\ last.el = element
                                     /\ last.arg = parentId
                                  THEN last.pre ELSE <<>>]
  /\ reader' = IF parentId # Null THEN mappingReplaced(reader)
                ELSE keyDeleted(reader, heap[element].id)
  /\ selectedId' = IF selectedId = heap[element].id THEN Null ELSE selectedId
  /\ selectedKey' = IF selectedId = heap[element].id THEN Null ELSE selectedKey
  /\ UNCHANGED <<effects, historyVars, saveVars, settingsVars>>

removeElement(element, parentId) ==
  /\ Step
  /\ LET r == removeElementState(heap, elements, element, parentId)
     IN /\ heap' = r.heap
        /\ elements' = r.elements
  /\ last' = [NoOp EXCEPT !.op = "removeElement", !.el = element, !.arg = parentId,
                          !.rt = (last.op = "appendElement" /\ last.el = element
                                  /\ last.arg = parentId),
                          !.pre = IF last.op = "appendElement" /\ last.el = element
                                     /\ last.arg = parentId
                                  THEN last.pre ELSE <<>>]
  /\ reader' = IF parentId # Null THEN mappingReplaced(reader)
                ELSE keyDeleted(reader, heap[element].id)
  /\ UNCHANGED <<selectedId, selectedKey, effects, historyVars, saveVars, settingsVars>>

(***************************************************************************)
(* SELECTION                                                               *)
(***************************************************************************)

\* select with the two fields of the element swapped.
select_swapped(element) ==
  /\ Step
  /\ selectedId' = keyOf(heap[element].id)
  /\ selectedKey' = heap[element].id
  /\ last' = [NoOp EXCEPT !.op = "select", !.el = element, !.arg = heap[element].id]
  /\ UNCHANGED <<heap, elements, effects, observerVars, saveVars, settingsVars>>

select(element) ==
  /\ Step
  /\ selectedId' = heap[element].id
  /\ selectedKey' = keyOf(heap[element].id)
  /\ last' = [NoOp EXCEPT !.op = "select", !.el = element, !.arg = heap[element].id]
  /\ UNCHANGED <<heap, elements, effects, observerVars, saveVars, settingsVars>>

\* The empty string is the falsy id.
selectId(id) ==
  /\ Step
  /\ selectedId' = IF id = "" THEN selectedId ELSE id
  /\ last' = [NoOp EXCEPT !.op = "selectId", !.arg = id]
  /\ UNCHANGED <<heap, elements, selectedKey, effects, observerVars, saveVars, settingsVars>>

selectKey(arg0) ==
  /\ Step
  /\ selectedKey' = IF arg0 = "" THEN selectedKey ELSE arg0
  /\ last' = [NoOp EXCEPT !.op = "selectKey", !.arg = arg0]
  /\ UNCHANGED <<heap, elements, selectedId, effects, observerVars, saveVars, settingsVars>>

\* What clearSelection sets: [selectedId, selectedKey].
clearSelectionState == [selectedId |-> Null, selectedKey |-> Null]

clearSelection ==
  /\ Step
  /\ selectedId' = clearSelectionState.selectedId
  /\ selectedKey' = clearSelectionState.selectedKey
  /\ last' = [NoOp EXCEPT !.op = "clearSelection"]
  /\ UNCHANGED <<heap, elements, effects, observerVars, saveVars, settingsVars>>

\* EditableElement.delete(): the element marks itself deleted; the registry entry
\* goes when the element's useElement effect is cleaned up.
delete(h, element) == [h EXCEPT ![element].deleted = TRUE]

\* The components rendered inside the component of element e.
inside(e) == {c \in Slots : contextId(c) = idOf(e)}

\* deleteElement clearing the selection only when the element is the selected one.
deleteElement_ifSelected(element) ==
  /\ Step
  /\ heap' = delete(heap, element)
  /\ selectedId' = IF selectedId = heap[element].id THEN Null ELSE selectedId
  /\ selectedKey' = IF selectedId = heap[element].id THEN Null ELSE selectedKey
  /\ last' = [NoOp EXCEPT !.op = "deleteElement", !.el = element, !.sel = selectedId,
                          !.existed = (heap[element].id \in DOMAIN elements),
                          !.pre = heap[element].childIds]
  /\ UNCHANGED <<elements, effects, observerVars, saveVars, settingsVars>>

\* deleteElement giving up the saves that are in flight.
deleteElement_cancelsSave(element) ==
  /\ Step
  /\ heap' = delete(heap, element)
  /\ selectedId' = clearSelectionState.selectedId
  /\ selectedKey' = clearSelectionState.selectedKey
  /\ last' = [NoOp EXCEPT !.op = "deleteElement", !.el = element, !.sel = selectedId,
                          !.existed = (heap[element].id \in DOMAIN elements),
                          !.pre = heap[element].childIds]
  /\ calls' = [c \in DOMAIN calls |->
                 IF calls[c].pc \in {"idle", "resolved", "rejected"} THEN calls[c]
                 ELSE [calls[c] EXCEPT !.pc = "cancelled"]]
  /\ UNCHANGED <<elements, effects, observerVars, clientLog, settingsVars>>

deleteElement(element) ==
  /\ Step
  /\ heap' = delete(heap, element)
  /\ selectedId' = clearSelectionState.selectedId
  /\ selectedKey' = clearSelectionState.selectedKey
  /\ last' = [NoOp EXCEPT !.op = "deleteElement", !.el = element, !.sel = selectedId,
                          !.existed = (heap[element].id \in DOMAIN elements),
                          !.pre = heap[element].childIds]
  /\ UNCHANGED <<elements, effects, observerVars, saveVars, settingsVars>>

ParentArgs == Ids \cup {Null}

\* Ids given to selectId: registered or not, and the falsy one.
IdArgs == Ids \cup {""}

KeyArgs == {keyOf(":r0:"), ""}

Next ==
  \/ \E e \in ElemRefs, p \in ParentArgs : appendElement(e, p)
  \/ \E e \in ElemRefs, p \in ParentArgs : removeElement(e, p)
  \/ \E e \in ElemRefs : deleteElement(e)
  \/ \E e \in ElemRefs : select(e)
  \/ \E id \in IdArgs : selectId(id)
  \/ \E k \in KeyArgs : selectKey(k)
  \/ clearSelection

Spec == Init /\ [][Next]_vars

(***************************************************************************)
(* READERS AND HISTORY                                                     *)
(***************************************************************************)

\* A reader calls store.getState().elements: it holds the mapping of the store
\* (the object, not a copy); `was` is what the mapping held at that moment.
readElements ==
  /\ Step
  /\ reader' = [held |-> TRUE, current |-> TRUE, map |-> elements,
                was |-> registryOf(heap, elements), at |-> nops + 1]
  /\ last' = [NoOp EXCEPT !.op = "readElements"]
  /\ UNCHANGED <<heap, elements, selectedId, selectedKey, effects, historyVars,
                 saveVars, settingsVars>>

\* historyManager.record(diff): the diff goes on the undo stack and the redo
\* stack is cleared.  Nothing in Editor calls it.
record(undos, diff) == [undoStack |-> <<diff>> \o undos, redoStack |-> <<>>]

\* The registry a diff describes is put back: the entries and what they hold.
restore(h, reg) ==
  [heap |-> [r \in Refs |->
               IF \E k \in DOMAIN reg : reg[k].ref = r
               THEN reg[CHOOSE k \in DOMAIN reg : reg[k].ref = r].fields
               ELSE h[r]],
   elements |-> [k \in DOMAIN reg |-> reg[k].ref]]

\* historyManager.undo(): the last diff recorded is inverted and goes on the
\* redo stack; with nothing recorded there is nothing to do.
undo ==
  /\ Step
  /\ IF undoStack = <<>>
     THEN UNCHANGED <<heap, elements, undoStack, redoStack>>
     ELSE LET r == restore(heap, Head(undoStack).old)
          IN /\ heap' = r.heap
             /\ elements' = r.elements
             /\ undoStack' = Tail(undoStack)
             /\ redoStack' = <<Head(undoStack)>> \o redoStack
  /\ last' = [NoOp EXCEPT !.op = "undo", !.arg = last.op,
                          !.reg = registryOf(heap, elements)]
  /\ reader' = IF undoStack = <<>> THEN reader ELSE mappingReplaced(reader)
  /\ UNCHANGED <<selectedId, selectedKey, effects, saveVars, settingsVars>>

\* historyManager.redo(): the last diff undone is applied again and goes back on
\* the undo stack; with nothing undone there is nothing to do.
redo ==
  /\ Step
  /\ IF redoStack = <<>>
     THEN UNCHANGED <<heap, elements, undoStack, redoStack>>
     ELSE LET r == restore(heap, Head(redoStack).new)
          IN /\ heap' = r.heap
             /\ elements' = r.elements
             /\ redoStack' = Tail(redoStack)
             /\ undoStack' = <<Head(redoStack)>> \o undoStack
  /\ last' = [NoOp EXCEPT !.op = "redo",
                          !.arg = IF last.op = "undo" THEN last.arg ELSE Null,
                          !.reg = IF last.op = "undo" THEN last.reg ELSE Null]
  /\ reader' = IF redoStack = <<>> THEN reader ELSE mappingReplaced(reader)
  /\ UNCHANGED <<selectedId, selectedKey, effects, saveVars, settingsVars>>

NextObserver ==
  \/ readElements
  \/ \E e \in ElemRefs, p \in ParentArgs : appendElement(e, p)
  \/ \E e \in ElemRefs, p \in ParentArgs : removeElement(e, p)
  \/ \E e \in ElemRefs : deleteElement(e)
  \/ undo
  \/ redo

ObserverSpec == Init /\ [][NextObserver]_vars

(***************************************************************************)
(* THE useElement EFFECT                                                   *)
(***************************************************************************)

\* Where an effect stands: "unmounted" (no component), "effectPending" (rendered,
\* the effect is to run), "mounted" (the effect ran with deleted false),
\* "mountedDeleted" (the effect ran with deleted true), "rerunPending" (a dependency
\* changed), "cleanupPending" (the component is unmounted, the cleanup is to run).
Settled == {"mounted", "mountedDeleted", "unmounted"}

inTree(eff, e) ==
  IF e \in Slots
  THEN eff[e] \in {"effectPending", "mounted", "mountedDeleted", "rerunPending"}
  ELSE TRUE

\* The effects of a render have all run before the next render.
effectsRun == \A e \in Slots : effects[e] \in Settled

\* The dependencies of the effect as it last ran, now.
ranAs(e) == IF heap[e].deleted THEN "mountedDeleted" ELSE "mounted"

parentSlot(e) == CHOOSE q \in ElemRefs : idOf(q) = contextId(e)

\* A component is rendered for the first time inside a component that is in the
\* tree: useMemo makes its element, and its effect is to be run.
renderElement(e) ==
  /\ effects[e] = "unmounted"
  /\ inTree(effects, parentSlot(e))
  /\ ~heap[parentSlot(e)].deleted
  /\ effects' = [effects EXCEPT ![e] = "effectPending"]
  /\ heap' = [heap EXCEPT ![e] = newEditableElement(idOf(e))]
  /\ last' = [NoOp EXCEPT !.op = "render", !.el = e, !.stub = last.stub]
  /\ UNCHANGED <<elements, selectedId, selectedKey, nops, observerVars, saveVars, settingsVars>>

\* The effect of useElement with its guard away.
runEffectState_unguarded(h, els, e) == appendElementState(h, els, e, contextId(e))

\* The effect of useElement: the element is appended unless it is deleted.
runEffectState(h, els, e) ==
  IF ~h[e].deleted THEN appendElementState(h, els, e, contextId(e))
  ELSE [heap |-> h, elements |-> els]

\* The cleanup removing the element without the id of its parent.
runCleanupState_noParent(h, els, e) == removeElementState(h, els, e, Null)

\* The cleanup the effect returned.
runCleanupState(h, els, e) == removeElementState(h, els, e, contextId(e))

\* The effect runs after the first render of the component.
mountEffect(e) ==
  /\ effects[e] = "effectPending"
  /\ LET r == runEffectState(heap, elements, e)
     IN heap' = r.heap /\ elements' = r.elements
  /\ effects' = [effects EXCEPT ![e] = ranAs(e)]
  /\ reader' = IF heap[e].deleted THEN reader ELSE mappingReplaced(reader)
  /\ last' = [last EXCEPT !.stub = @ \/ (~heap[e].deleted /\ contextId(e) \notin DOMAIN elements)]
  /\ UNCHANGED <<selectedId, selectedKey, nops, historyVars, saveVars, settingsVars>>

\* The render that follows element.delete(): deleted is a dependency of the
\* element's effect, so the effect is to run again, and the components inside
\* the deleted element are unmounted.
deletedUnrendered(e) ==
  /\ heap[e].deleted
  /\ effects[e] # "unmounted"
  /\ effects[e] = "mounted" \/ \E c \in inside(e) : effects[c] # "unmounted"

rerenderDeleted(e) ==
  /\ effectsRun
  /\ deletedUnrendered(e)
  /\ effects' = [c \in Slots |->
                   IF c = e /\ effects[c] = "mounted" THEN "rerunPending"
                   ELSE IF c \in inside(e) /\ effects[c] # "unmounted" THEN "cleanupPending"
                   ELSE effects[c]]
  /\ UNCHANGED <<heap, elements, selectedId, selectedKey, last, nops, observerVars,
                 saveVars, settingsVars>>

\* A dependency of the effect changed: the cleanup runs, then the effect.
rerunEffect(e) ==
  /\ effects[e] = "rerunPending"
  /\ LET c == runCleanupState(heap, elements, e)
         r == runEffectState(c.heap, c.elements, e)
     IN heap' = r.heap /\ elements' = r.elements
  /\ effects' = [effects EXCEPT ![e] = ranAs(e)]
  /\ reader' = mappingReplaced(reader)
  /\ UNCHANGED <<selectedId, selectedKey, last, nops, historyVars, saveVars, settingsVars>>

\* The component of e is unmounted, and with it the components inside it.
unmountElement(e) ==
  /\ effectsRun
  /\ effects[e] # "unmounted"
  /\ effects' = [c \in Slots |->
                   IF (c = e \/ c \in inside(e)) /\ effects[c] # "unmounted"
                   THEN "cleanupPending" ELSE effects[c]]
  /\ last' = [NoOp EXCEPT !.op = "unmount", !.el = e, !.stub = last.stub]
  /\ UNCHANGED <<heap, elements, selectedId, selectedKey, nops, observerVars,
                 saveVars, settingsVars>>

\* The cleanup of an unmounted component runs.
cleanupEffect(e) ==
  /\ effects[e] = "cleanupPending"
  /\ LET c == runCleanupState(heap, elements, e)
     IN heap' = c.heap /\ elements' = c.elements
  /\ effects' = [effects EXCEPT ![e] = "unmounted"]
  /\ reader' = mappingReplaced(reader)
  /\ UNCHANGED <<selectedId, selectedKey, last, nops, historyVars, saveVars, settingsVars>>

NextLifecycle ==
  \/ \E e \in Slots : renderElement(e)
  \/ \E e \in Slots : mountEffect(e)
  \/ \E e \in Slots : rerenderDeleted(e)
  \/ \E e \in Slots : rerunEffect(e)
  \/ \E e \in Slots : unmountElement(e)
  \/ \E e \in Slots : cleanupEffect(e)
  \/ \E e \in Slots : deleteElement(e)
  \/ \E e \in Slots : select(e)

LifecycleSpec == Init /\ [][NextLifecycle]_vars

(***************************************************************************)
(* SAVE                                                                    *)
(***************************************************************************)

\* this.client.save(diff) is called: the client sees the diff.
clientSave(log, c, idx, diff) ==
  [log EXCEPT ![c] = Append(@, [idx |-> idx, diff |-> diff, ev |-> "start"])]

\* save calling saveDiff for every diff without awaiting any.
RECURSIVE startAll(_, _, _, _)
startAll(log, c, diffs, idx) ==
  IF idx > Len(diffs) THEN log
  ELSE startAll(clientSave(log, c, idx, diffs[idx]), c, diffs, idx + 1)

save_pipelined(c, diffs) ==
  /\ calls[c].pc = "idle"
  /\ IF diffs = <<>>
     THEN /\ calls' = [calls EXCEPT ![c] = [pc |-> "resolved", diffs |-> diffs, i |-> 0,
                                            ops |-> nops]]
          /\ UNCHANGED clientLog
     ELSE /\ calls' = [calls EXCEPT ![c] = [pc |-> "awaitClient", diffs |-> diffs, i |-> 1,
                                            ops |-> nops]]
          /\ clientLog' = startAll(clientLog, c, diffs, 1)
  /\ UNCHANGED <<treeVars, settingsVars>>

\* save(diffs) is called and runs to its first await: saveDiff(diffs[0]) calls
\* client.save and both suspend; with no diffs the call is over at once.
save(c, diffs) ==
  /\ calls[c].pc = "idle"
  /\ IF diffs = <<>>
     THEN /\ calls' = [calls EXCEPT ![c] = [pc |-> "resolved", diffs |-> diffs, i |-> 0,
                                            ops |-> nops]]
          /\ UNCHANGED clientLog
     ELSE /\ calls' = [calls EXCEPT ![c] = [pc |-> "awaitClient", diffs |-> diffs, i |-> 1,
                                            ops |-> nops]]
          /\ clientLog' = clientSave(clientLog, c, 1, diffs[1])
  /\ UNCHANGED <<treeVars, settingsVars>>

\* The client settles the promise client.save returned: it resolves or rejects.
clientSettle(c, ok) ==
  /\ calls[c].pc = "awaitClient"
  /\ calls' = [calls EXCEPT ![c].pc = IF ok THEN "clientResolved" ELSE "clientRejected"]
  /\ clientLog' = [clientLog EXCEPT ![c] =
                     Append(@, [idx |-> calls[c].i, diff |-> calls[c].diffs[calls[c].i],
                                ev |-> IF ok THEN "ok" ELSE "err"])]
  /\ UNCHANGED <<treeVars, settingsVars>>

\* saveDiff resumes after its await and returns, or throws what the client threw.
saveDiffResume(c) ==
  /\ calls[c].pc \in {"clientResolved", "clientRejected"}
  /\ calls' = [calls EXCEPT ![c].pc =
                 IF calls[c].pc = "clientResolved" THEN "diffResolved" ELSE "diffRejected"]
  /\ UNCHANGED <<clientLog, treeVars, settingsVars>>

\* save catching the rejection of a diff and going on with the next one.
saveResume_continues(c) ==
  /\ calls[c].pc \in {"diffResolved", "diffRejected"}
  /\ IF calls[c].i < Len(calls[c].diffs)
     THEN /\ calls' = [calls EXCEPT ![c].pc = "awaitClient", ![c].i = calls[c].i + 1]
          /\ clientLog' = clientSave(clientLog, c, calls[c].i + 1,
                                     calls[c].diffs[calls[c].i + 1])
     ELSE /\ calls' = [calls EXCEPT ![c].pc =
                         IF calls[c].pc = "diffRejected" THEN "rejected" ELSE "resolved"]
          /\ UNCHANGED clientLog
  /\ UNCHANGED <<treeVars, settingsVars>>

\* save resumes after its await: it throws, goes on to the next diff, or returns.
saveResume(c) ==
  /\ calls[c].pc \in {"diffResolved", "diffRejected"}
  /\ IF calls[c].pc = "diffRejected"
     THEN /\ calls' = [calls EXCEPT ![c].pc = "rejected"]
          /\ UNCHANGED clientLog
     ELSE IF calls[c].i < Len(calls[c].diffs)
     THEN /\ calls' = [calls EXCEPT ![c].pc = "awaitClient", ![c].i = calls[c].i + 1]
          /\ clientLog' = clientSave(clientLog, c, calls[c].i + 1,
                                     calls[c].diffs[calls[c].i + 1])
     ELSE /\ calls' = [calls EXCEPT ![c].pc = "resolved"]
          /\ UNCHANGED clientLog
  /\ UNCHANGED <<treeVars, settingsVars>>

NextSave ==
  \/ \E c \in SaveCalls, diffs \in DiffArrays : save(c, diffs)
  \/ \E c \in SaveCalls, ok \in BOOLEAN : clientSettle(c, ok)
  \/ \E c \in SaveCalls : saveDiffResume(c)
  \/ \E c \in SaveCalls : saveResume(c)

\* The continuations of an async function run once the promise they await has
\* settled: the microtask queue is always drained.  The client need never settle.
SaveSpec ==
  /\ Init /\ [][NextSave]_vars
  /\ \A c \in SaveCalls : WF_vars(saveDiffResume(c)) /\ WF_vars(saveResume(c))

(***************************************************************************)
(* PANELS AND SETTINGS                                                     *)
(***************************************************************************)

\* getPanel(name) for a string name: the data of the panels afterwards.
getPanelState(ps, name) ==
  IF name \in DOMAIN ps \cup Inherited THEN ps
  ELSE [n \in DOMAIN ps \cup {name} |-> IF n = name THEN EmptyData ELSE ps[n]]

\* createLevaStore(): a store object that did not exist before.
createLevaStore(po) == "P" \o ToString(Cardinality(DOMAIN po))

\* getPanel(name) for a string name: the registered store objects afterwards.
getPanelHandles(po, name) ==
  IF name \in DOMAIN po \cup Inherited THEN po
  ELSE [n \in DOMAIN po \cup {name} |-> IF n = name THEN createLevaStore(po) ELSE po[n]]

\* What getPanel(name) returns: panels[name].panel, which is undefined when
\* panels[name] is an inherited property.
getPanelResult(po, name) ==
  IF name \in Handles THEN name
  ELSE IF name \in DOMAIN po THEN po[name]
  ELSE IF name \in Inherited THEN Undef
  ELSE getPanelHandles(po, name)[name]

\* The first result of getPanel for each name is kept.
noteFirst(fp, po, name) ==
  IF name \in DOMAIN fp \/ name \in Handles THEN fp
  ELSE [n \in DOMAIN fp \cup {name} |->
          IF n = name THEN getPanelResult(po, name) ELSE fp[n]]

\* The settingsPanel getter: getPanel(this.store.getState().settingsPanel).
settingsPanelGetter ==
  /\ panelOf' = getPanelHandles(panelOf, settingsPanel)
  /\ firstPanel' = noteFirst(firstPanel, panelOf, settingsPanel)
  /\ UNCHANGED plast

\* getPanel(name), name a string or a store object.
getPanel(name) ==
  /\ IF name \in Handles
     THEN UNCHANGED <<panels, panelOf>>
     ELSE /\ panels' = getPanelState(panels, name)
          /\ panelOf' = getPanelHandles(panelOf, name)
  /\ firstPanel' = noteFirst(firstPanel, panelOf, name)
  /\ plast' = [op |-> "getPanel", arg |-> name, ret |-> getPanelResult(panelOf, name),
               before |-> panelOf]
  /\ UNCHANGED <<settingsPanel, slast, treeVars, saveVars>>

NextPanel ==
  \/ \E name \in PanelNames : getPanel(name)
  \/ \E h \in Handles : getPanel(h)

PanelSpec == Init /\ [][NextPanel]_vars

\* A save call next to the synchronous operations: between any two steps of a
\* save, the registry, the selection and the panels can be operated on, also on
\* the element the diffs were made for.
NextInterleaved ==
  \/ \E diffs \in DiffArrays : save("s1", diffs)
  \/ \E ok \in BOOLEAN : clientSettle("s1", ok)
  \/ saveDiffResume("s1")
  \/ saveResume("s1")
  \/ appendElement("E_r0", "root")
  \/ \E p \in {"root", Null} : removeElement("E_r0", p)
  \/ deleteElement("E_r0")
  \/ select("E_r0")
  \/ getPanel("inspector")

\* The continuations run once the promise they await has settled, and every
\* promise client.save returned is settled at some time.
InterleavedSpec ==
  /\ Init /\ [][NextInterleaved]_vars
  /\ WF_vars(saveDiffResume("s1")) /\ WF_vars(saveResume("s1"))
  /\ WF_vars(\E ok \in BOOLEAN : clientSettle("s1", ok))

\* panel.get(path): the value at the path, undefined when there is no such input.
get(data, path) == IF path \in DOMAIN data THEN data[path] ELSE Undef

\* What string concatenation makes of a value.
str(v) == IF v = Undef THEN "undefined" ELSE v

\* `world.` + mode + " settings." + key
settingPath(mode, key) == "world." \o str(mode) \o " settings." \o key

\* panel.setValueAtPath(path, value, true)
setValueAtPath(data, path, value) == [data EXCEPT ![path] = value]

\* setSetting without its guard: the write creates the input.
setSettingData_unguarded(data, arg0, arg1) ==
  LET path == settingPath(get(data, "world.mode"), arg0)
  IN [p \in DOMAIN data \cup {path} |-> IF p = path THEN arg1 ELSE data[p]]

\* setSetting writing under the settings path of the editor mode whatever the
\* active mode is.
setSettingData_fixedMode(data, arg0, arg1) ==
  IF settingPath("editor", arg0) \in DOMAIN data
  THEN setValueAtPath(data, settingPath("editor", arg0), arg1)
  ELSE data

\* The data of the settings panel after setSetting(arg0, arg1).
setSettingData(data, arg0, arg1) ==
  LET mode == get(data, "world.mode")
  IN IF settingPath(mode, arg0) \in DOMAIN data
     THEN setValueAtPath(data, settingPath(mode, arg0), arg1)
     ELSE data

\* The loop of setSettings over the entries of values, in the order for-in gives:
\* a write through an input that is not there throws a TypeError, which ends the
\* loop; the writes already made were made in place and stay.
RECURSIVE setSettingsLoop(_, _)
setSettingsLoop(data, values) ==
  IF values = <<>> THEN [data |-> data, threw |-> FALSE]
  ELSE IF "world.mode" \notin DOMAIN data THEN [data |-> data, threw |-> TRUE]
  ELSE LET path == settingPath(data["world.mode"], Head(values)[1])
       IN IF path \notin DOMAIN data THEN [data |-> data, threw |-> TRUE]
          ELSE setSettingsLoop([data EXCEPT ![path] = Head(values)[2]], Tail(values))

dataOf(ps, name) == IF name \in DOMAIN ps THEN ps[name] ELSE EmptyData

\* What reading `.value` of an input that is not there throws.
TypeError == "<TypeError>"

\* getSettings(arg0) on the data of the settings panel: the value at the path of
\* arg0 under the active mode; the read throws when there is no such input.
getSettings(data, arg0) ==
  LET path == settingPath(get(data, "world.mode"), arg0)
  IN IF path \in DOMAIN data THEN data[path] ELSE TypeError

setSetting(arg0, arg1) ==
  /\ LET ps == getPanelState(panels, settingsPanel)
     IN panels' = [ps EXCEPT ![settingsPanel] = setSettingData(ps[settingsPanel], arg0, arg1)]
  /\ slast' = [NoSettingsOp EXCEPT !.op = "setSetting", !.key = arg0, !.val = arg1,
                                   !.before = dataOf(panels, settingsPanel)]
  /\ settingsPanelGetter
  /\ UNCHANGED <<settingsPanel, treeVars, saveVars>>

setSettings(values) ==
  /\ LET ps == getPanelState(panels, settingsPanel)
         r == setSettingsLoop(ps[settingsPanel], values)
     IN /\ panels' = [ps EXCEPT ![settingsPanel] = r.data]
        /\ slast' = [NoSettingsOp EXCEPT !.op = "setSettings", !.values = values,
                                         !.before = dataOf(panels, settingsPanel),
                                         !.threw = r.threw]
  /\ settingsPanelGetter
  /\ UNCHANGED <<settingsPanel, treeVars, saveVars>>

\* useSettings(name, schema): the hook registers the input of the setting under
\* the settings path of the mode ("editor" when world.mode is "editor", "play"
\* otherwise); an input that is there keeps its value.
useSettings(name, value) ==
  /\ LET ps == getPanelState(panels, settingsPanel)
         data == ps[settingsPanel]
         mode == IF get(data, "world.mode") = "editor" THEN "editor" ELSE "play"
         path == settingPath(mode, name)
     IN panels' = [ps EXCEPT ![settingsPanel] =
                     [p \in DOMAIN data \cup {path} |->
                        IF p \in DOMAIN data THEN data[p] ELSE value]]
  /\ slast' = [NoSettingsOp EXCEPT !.op = "useSettings", !.key = name, !.val = value,
                                   !.before = dataOf(panels, settingsPanel)]
  /\ settingsPanelGetter
  /\ UNCHANGED <<settingsPanel, treeVars, saveVars>>

\* The world.mode input of the settings panel is registered or switched.
setMode(mode) ==
  /\ LET ps == getPanelState(panels, settingsPanel)
         data == ps[settingsPanel]
     IN panels' = [ps EXCEPT ![settingsPanel] =
                     [p \in DOMAIN data \cup {"world.mode"} |->
                        IF p = "world.mode" THEN mode ELSE data[p]]]
  /\ slast' = [NoSettingsOp EXCEPT !.op = "setMode", !.val = mode,
                                   !.before = dataOf(panels, settingsPanel)]
  /\ settingsPanelGetter
  /\ UNCHANGED <<settingsPanel, treeVars, saveVars>>

\* The mappings given to setSettings: their entries in insertion order.
RECURSIVE Mappings(_)
Mappings(keys) ==
  {<<>>} \cup UNION {{<<<<k, v>>>> \o m : m \in Mappings(keys \ {k}), v \in Values} :
                     k \in keys}

NextSettings ==
  \/ \E k \in SettingKeys, v \in Values : setSetting(k, v)
  \/ \E values \in Mappings(SettingKeys) : setSettings(values)
  \/ \E k \in SettingKeys, v \in Values : useSettings(k, v)
  \/ \E m \in Modes : setMode(m)

SettingsSpec == Init /\ [][NextSettings]_vars

(***************************************************************************)
(* CLAIMS                                                                  *)
(***************************************************************************)

\* The id of the element the last operation was given.
lastId == heap[last.el].id

\* C1: after appendElement(e, p) with a parent p that exists, the childIds of the
\* entry under p contains e.id exactly once, and e.parentId is p.
C1_AppendedOnce ==
  (last.op = "appendElement" /\ last.arg # Null /\ last.existed)
    => /\ Count(childIdsOf(heap, elements, last.arg), lastId) = 1
       /\ heap[last.el].parentId = last.arg

\* C2: appendElement(e, p) followed by removeElement(e, p) leaves e.id out of the
\* keys of elements and out of the childIds of p, and the childIds of p are the
\* other children p had before the append, in their order.
C2_RoundTrip ==
  last.rt
    => /\ lastId \notin DOMAIN elements
       /\ (last.arg # Null /\ last.arg \in DOMAIN elements)
            => /\ Count(childIdsOf(heap, elements, last.arg), lastId) = 0
               /\ childIdsOf(heap, elements, last.arg) = Without(last.pre, lastId)

\* An append and remove of e under p, where p had two different other children.
C2_Witness ==
  /\ last.rt
  /\ last.arg \in DOMAIN elements
  /\ \E i, j \in DOMAIN last.pre :
        i < j /\ last.pre[i] # last.pre[j] /\ last.pre[i] # lastId /\ last.pre[j] # lastId

\* The diffs of call c whose client.save has started and not settled.
inFlight(c) ==
  {n \in 1..Len(calls[c].diffs) :
     /\ \E j \in DOMAIN clientLog[c] :
          clientLog[c][j].idx = n /\ clientLog[c][j].ev = "start"
     /\ ~\E j \in DOMAIN clientLog[c] :
          clientLog[c][j].idx = n /\ clientLog[c][j].ev \in {"ok", "err"}}

\* C3: within one save call, client.save is invoked on the diffs in array order,
\* the call for a diff starts only after the call for the diff before it has
\* completed, and at most one client.save of the call is in flight.
C3_Sequential ==
  \A c \in SaveCalls :
    /\ Cardinality(inFlight(c)) <= 1
    /\ LET ev == clientLog[c]
       IN \A j \in DOMAIN ev :
            ev[j].ev = "start"
              => /\ ev[j].idx = 1 + Cardinality({k \in 1..(j - 1) : ev[k].ev = "start"})
                 /\ ev[j].diff = calls[c].diffs[ev[j].idx]
                 /\ ev[j].idx > 1 => (ev[j - 1].ev = "ok" /\ ev[j - 1].idx = ev[j].idx - 1)

\* The last diff of a call of three diffs is with the client while the other
\* call has a diff with the client too.
C3_Witness ==
  \E c, d \in SaveCalls :
    /\ c # d
    /\ Len(calls[c].diffs) = 3 /\ inFlight(c) = {3}
    /\ inFlight(d) # {}

\* The index of the diff whose client.save rejected, 0 when none did.
failedAt(c) ==
  IF \E j \in DOMAIN clientLog[c] : clientLog[c][j].ev = "err"
  THEN (CHOOSE e \in Range(clientLog[c]) : e.ev = "err").idx
  ELSE 0

countEvents(c, n, ev) ==
  Cardinality({j \in DOMAIN clientLog[c] :
                 clientLog[c][j].idx = n /\ clientLog[c][j].ev = ev})

C4_Safe(c) ==
  failedAt(c) # 0
    => /\ \A n \in 1..Len(calls[c].diffs) :
            /\ countEvents(c, n, "ok") = (IF n < failedAt(c) THEN 1 ELSE 0)
            /\ countEvents(c, n, "start") = (IF n <= failedAt(c) THEN 1 ELSE 0)
            /\ countEvents(c, n, "err") = (IF n = failedAt(c) THEN 1 ELSE 0)
       /\ calls[c].pc \in {"clientRejected", "diffRejected", "rejected"}

\* C4: when dk is the first diff whose client.save rejects, client.save has
\* completed for exactly d1..d(k-1), it is never invoked for the diffs after dk,
\* no diff is retried, and the save call rejects.
C4_FailFast ==
  /\ [](\A c \in SaveCalls : C4_Safe(c))
  /\ \A c \in SaveCalls : (failedAt(c) # 0) ~> (calls[c].pc = "rejected")

\* A save of three diffs has rejected on its second diff.
C4_Witness ==
  \E c \in SaveCalls :
    Len(calls[c].diffs) = 3 /\ failedAt(c) = 2 /\ calls[c].pc = "rejected"

SelectedRegistered == selectedId = Null \/ selectedId \in DOMAIN elements

\* C5 as stated: selectedId is null or a key of elements.
C5_SelectedRegistered == SelectedRegistered

\* The step selects an id that is not a key of elements, or removes the entry
\* of the selected id.
UnvalidatedStep ==
  \/ last'.op \in {"select", "selectId"} /\ last'.arg # "" /\ last'.arg \notin DOMAIN elements
  \/ last'.op = "removeElement" /\ heap[last'.el].id = selectedId

\* C5, amended: selectedId stays null or a key of elements over every operation
\* but a select or selectId of an id that is not a key of elements and a
\* removeElement of the element whose id is selected.
C5_SelectedRegisteredUnlessUnvalidated ==
  [][(SelectedRegistered /\ ~UnvalidatedStep) => SelectedRegistered']_vars

\* An element is selected and registered, and another one has just been removed.
C5_Witness ==
  /\ selectedId # Null /\ selectedId \in DOMAIN elements
  /\ last.op = "removeElement" /\ lastId # selectedId

\* C6: after deleteElement(e), selectedId and selectedKey are null.
C6_DeleteClearsSelection ==
  last.op = "deleteElement" => (selectedId = Null /\ selectedKey = Null)

\* deleteElement(e) was called while another element was selected.
C6_Witness ==
  last.op = "deleteElement" /\ last.sel # Null /\ last.sel # lastId

\* C7: after an appendElement or removeElement, every id in some childIds is a
\* key of elements, and every entry but root with a parentId has its parent in
\* elements, with the entry's id exactly once in the parent's childIds.
C7_TreeLinks ==
  last.op \in {"appendElement", "removeElement"}
    => /\ \A k \in DOMAIN elements :
            \A i \in DOMAIN heap[elements[k]].childIds :
              heap[elements[k]].childIds[i] \in DOMAIN elements
       /\ \A k \in DOMAIN elements \ {"root"} :
            LET o == heap[elements[k]]
            IN o.parentId \notin {Null, Undef}
                 => /\ o.parentId \in DOMAIN elements
                    /\ Count(childIdsOf(heap, elements, o.parentId), o.id) = 1

\* C8: elements has the key root, and the entry's parentId is null.
C8_RootPresent ==
  "root" \in DOMAIN elements /\ heap[elements["root"]].parentId = Null

settingsDataNow == dataOf(panels, settingsPanel)

\* C9: setSetting(k, v) changes nothing in the data of the settings panel when
\* the path of k under the active mode is not there, and when it is there it
\* stores v at that path and changes nothing else.
C9_SetSetting ==
  slast.op = "setSetting"
    => LET path == settingPath(get(slast.before, "world.mode"), slast.key)
       IN /\ DOMAIN settingsDataNow = DOMAIN slast.before
          /\ \A p \in DOMAIN slast.before \ {path} : settingsDataNow[p] = slast.before[p]
          /\ path \in DOMAIN slast.before => settingsDataNow[path] = slast.val

\* setSetting was called for a setting the other mode has and the active mode
\* has not.
C9_Witness ==
  /\ slast.op = "setSetting"
  /\ "world.mode" \in DOMAIN slast.before
  /\ settingPath(slast.before["world.mode"], slast.key) \notin DOMAIN slast.before
  /\ \E m \in Modes : settingPath(m, slast.key) \in DOMAIN slast.before

\* setSetting(k, values[k]) for each key of values, in order.
RECURSIVE eachSetSetting(_, _)
eachSetSetting(data, values) ==
  IF values = <<>> THEN data
  ELSE eachSetSetting(setSettingData(data, Head(values)[1], Head(values)[2]), Tail(values))

\* C10: setSettings(values) leaves the data that setSetting(k, values[k]) for
\* each key k leaves.
C10_BulkIsEach ==
  slast.op = "setSettings" => settingsDataNow = eachSetSetting(slast.before, slast.values)

\* The settings paths of the mode m.
pathsOf(m) == {settingPath(m, k) : k \in SettingKeys}

\* C11: a setSetting or setSettings made while mode m is active changes only
\* values under the settings path of m, adds and removes no input and leaves
\* world.mode and the values under every other mode as they were; and after a
\* switch of the mode, getSettings(k) is the value that was stored for k under
\* the mode switched to.
C11_ModeGated ==
  /\ slast.op \in {"setSetting", "setSettings"}
       => /\ DOMAIN settingsDataNow = DOMAIN slast.before
          /\ \A p \in DOMAIN slast.before :
                settingsDataNow[p] # slast.before[p]
                  => p \in pathsOf(get(slast.before, "world.mode"))
  /\ slast.op = "setMode"
       => \A k \in SettingKeys :
            getSettings(settingsDataNow, k) =
              IF settingPath(slast.val, k) \in DOMAIN slast.before
              THEN slast.before[settingPath(slast.val, k)] ELSE TypeError

\* A write changed the value of a setting under the active mode while the other
\* mode holds a different value for the same setting.
C11_Witness ==
  /\ slast.op \in {"setSetting", "setSettings"}
  /\ "world.mode" \in DOMAIN slast.before
  /\ \E k \in SettingKeys, m \in Modes :
        LET here == settingPath(slast.before["world.mode"], k)
            there == settingPath(m, k)
        IN /\ m # slast.before["world.mode"]
           /\ here \in DOMAIN slast.before /\ there \in DOMAIN slast.before
           /\ settingsDataNow[here] # slast.before[here]
           /\ settingsDataNow[there] # settingsDataNow[here]
           /\ getSettings(settingsDataNow, k) = settingsDataNow[here]
\* C12: a getPanel call with a string name returns a panel store, the one the
\* first call with that name returned (leva's store for the name default), and
\* leaves the panels registered under other names as they were; a call given a
\* store object returns it and changes nothing in the registry.
C12_GetPanelIdempotent ==
  plast.op = "getPanel"
    => IF plast.arg \in Handles
       THEN plast.ret = plast.arg /\ panelOf = plast.before
       ELSE /\ plast.ret \in Handles
            /\ plast.ret = firstPanel[plast.arg]
            /\ plast.arg = "default" => plast.ret = "levaStore"
            /\ \A n \in DOMAIN plast.before : panelOf[n] = plast.before[n]
            /\ DOMAIN panelOf \subseteq DOMAIN plast.before \cup {plast.arg}
\* Every render, effect and cleanup that was to follow has happened.
flushed == effectsRun /\ \A e \in Slots : ~deletedUnrendered(e)

Mutations == {"appendElement", "removeElement", "deleteElement"}

\* C14: a reader notes the registry, one of appendElement, removeElement and
\* deleteElement is performed, and undo is called: the registry is again as the
\* reader noted it; and when redo is called after that, the registry is as it
\* was after the mutation.
C14_UndoRedo ==
  /\ (last.op = "undo" /\ last.arg \in Mutations /\ reader.held /\ nops = reader.at + 2)
       => registryOf(heap, elements) = reader.was
  /\ (last.op = "redo" /\ last.arg \in Mutations)
       => registryOf(heap, elements) = last.reg
\* The childIds a reader finds on the entry under key k of the mapping it holds:
\* the entry is the object itself, so what the object holds now (an object that
\* nothing but the reader's mapping refers to any more holds what it held).
childIdsSeen(rd, k) ==
  IF rd.map[k] \in StubRefs /\ rd.map[k] \notin Range(elements)
  THEN rd.was[k].fields.childIds
  ELSE heap[rd.map[k]].childIds

\* C15: a reader that obtained the elements mapping right before an
\* appendElement or removeElement finds, after the call, the same keys in its
\* mapping and the same childIds on each of its entries.
C15_CopyOnWrite ==
  (last.op \in {"appendElement", "removeElement"} /\ reader.held /\ nops = reader.at + 1)
    => /\ DOMAIN reader.map = DOMAIN reader.was
       /\ \A k \in DOMAIN reader.map \cap DOMAIN reader.was :
             childIdsSeen(reader, k) = reader.was[k].fields.childIds
\* The positions of id in the sequence of child ids, counted from 0.
positionsOf(childIds, id) == {i - 1 : i \in {j \in DOMAIN childIds : childIds[j] = id}}

\* C16: after an appendElement or removeElement, every registered element that
\* is listed in the childIds of its parent has the index of its position there.
C16_IndexIsPosition ==
  last.op \in {"appendElement", "removeElement"}
    => \A k \in DOMAIN elements :
         LET o == heap[elements[k]]
             at == positionsOf(childIdsOf(heap, elements, o.parentId), o.id)
         IN (o.kind = "element" /\ o.parentId \in DOMAIN elements /\ at # {})
              => \E i \in at : o.index = ToString(i)
\* The step is a removeElement(e, p) with a p that is not null and not a key.
RemovesUnderMissingParent ==
  /\ last'.op = "removeElement"
  /\ last'.arg # Null
  /\ last'.arg \notin DOMAIN elements

C18_RemoveKeepsSelection ==
  [][last'.op \in {"removeElement", "appendElement"}
       => (selectedId' = selectedId /\ selectedKey' = selectedKey)]_vars

\* The selected element, a child of root, has been removed with a null
\* parentId and is still the selection.
C18_Witness ==
  /\ last.op = "removeElement" /\ last.arg = Null
  /\ selectedId = lastId /\ selectedKey = keyOf(lastId)
  /\ lastId \notin DOMAIN elements
  /\ Count(childIdsOf(heap, elements, "root"), lastId) = 1
\* The diffs of call c that client.save was called with, in the order of the calls.
startedOf(c) ==
  LET starts == SelectSeq(clientLog[c], LAMBDA ev : ev.ev = "start")
  IN [j \in DOMAIN starts |-> starts[j].diff]

\* The diffs client.save is called with when nothing is interleaved: the diffs
\* of the call in their order, up to the one at which the call is.
startedAlone(c) == SubSeq(calls[c].diffs, 1, calls[c].i)

\* An operation on the registry or the selection can be performed now.
operable ==
  /\ ENABLED appendElement("E_r0", "root")
  /\ ENABLED removeElement("E_r0", "root")
  /\ ENABLED deleteElement("E_r0")
  /\ ENABLED select("E_r0")
  /\ ENABLED getPanel("inspector")

\* C19: while a save is in flight the operations on the registry, the
\* selection and the panels can be performed; whatever is performed between
\* the steps of a save, client.save is called with the diffs the save would
\* call it with alone, in that order; and the save call completes.
C19_SaveUndisturbed ==
  /\ []((calls["s1"].pc = "awaitClient" /\ nops < MaxOps) => operable)
  /\ [](startedOf("s1") = startedAlone("s1"))
  /\ (calls["s1"].pc = "awaitClient") ~> (calls["s1"].pc \in {"resolved", "rejected"})

\* The third diff of a save is with the client, and the element was deleted
\* after the save was called.
C19_Witness ==
  /\ calls["s1"].pc = "awaitClient" /\ calls["s1"].i = 3
  /\ last.op \in {"deleteElement", "removeElement"}
  /\ nops > calls["s1"].ops
  /\ heap["E_r0"].deleted
\* C20: under the useElement lifecycle, once every component that was mounted
\* is unmounted and its cleanup has run, elements has the key root and no
\* other, and the childIds of root are empty.
C20_LifecycleLeavesRoot ==
  (\A e \in Slots : effects[e] = "unmounted")
    => /\ DOMAIN elements = {"root"}
       /\ childIdsOf(heap, elements, "root") = <<>>

\* Everything is unmounted again and cleaned up, after an effect had appended
\* its element under a parent that was not registered yet.
C20_Witness ==
  /\ \A e \in Slots : effects[e] = "unmounted"
  /\ last.op = "unmount"
  /\ last.stub
====
